---------------------------- MODULE Spec2Model ----------------------------
(***************************************************************************)
(* Power_Outages_Ukraine: the cleaning / aggregation stage                 *)
(* (scripts/clean_data.py), the map data loader and the client-side logic  *)
(* of the rendered map page (scripts/build_maps.py).                       *)
(*                                                                         *)
(* Text is modelled as a sequence of one-character strings, so that        *)
(* trimming, parsing, formatting and lexicographic comparison are computed *)
(* and not assumed.  A float is modelled as an exact rational num/den in   *)
(* lowest terms with den > 0.                                              *)
(***************************************************************************)
EXTENDS Integers, Sequences, FiniteSets, TLC

(***************************************************************************)
(* Bounds of the model.                                                    *)
(***************************************************************************)
\* Data rows of the raw survey file.
MaxRows == 2

\* Data lines of a clean dataset file handed to load_clean_data.
MaxCleanRows == 2

\* Largest hour count handed to getColor (the legend ends at 24).
MaxValue == 26

\* Calls of renderLayers on one page: the first and the date changes.
MaxRenders == 3

\* Data rows of the raw survey file in the runs that may fail on an input.
MaxRunRows == 1

(***************************************************************************)
(* Text.                                                                   *)
(***************************************************************************)
\* Code points of the characters of the model's alphabet (Python compares
\* str values code point by code point).
Ord ==
  (" " :> 32) @@ ("," :> 44) @@ ("-" :> 45) @@ ("." :> 46) @@
  ("0" :> 48) @@ ("1" :> 49) @@ ("2" :> 50) @@ ("3" :> 51) @@ ("4" :> 52) @@
  ("5" :> 53) @@ ("6" :> 54) @@ ("7" :> 55) @@ ("8" :> 56) @@ ("9" :> 57) @@
  ("A" :> 65) @@ ("B" :> 66) @@ ("Q" :> 81) @@ ("g" :> 103) @@ ("x" :> 120)

DigitChars == <<"0", "1", "2", "3", "4", "5", "6", "7", "8", "9">>

IsDigit(c) == \E i \in 1..Len(DigitChars) : DigitChars[i] = c

DigitVal(c) == Ord[c] - Ord["0"]

\* str.strip(): leading and trailing whitespace removed.
RECURSIVE LStrip(_)
LStrip(s) == IF s # <<>> /\ Head(s) = " " THEN LStrip(Tail(s)) ELSE s

RECURSIVE RStrip(_)
RStrip(s) ==
  IF s # <<>> /\ s[Len(s)] = " " THEN RStrip(SubSeq(s, 1, Len(s) - 1)) ELSE s

strip(s) == RStrip(LStrip(s))

\* a < b for two str values.
RECURSIVE StrLess(_, _)
StrLess(a, b) ==
  IF b = <<>> THEN FALSE
  ELSE IF a = <<>> THEN TRUE
  ELSE IF Head(a) = Head(b) THEN StrLess(Tail(a), Tail(b))
  ELSE Ord[Head(a)] < Ord[Head(b)]

\* sorted(S) for a set of str values.
RECURSIVE SortedStrings(_)
SortedStrings(S) ==
  IF S = {} THEN <<>>
  ELSE LET m == CHOOSE x \in S : \A y \in S : ~StrLess(y, x)
       IN  <<m>> \o SortedStrings(S \ {m})

\* sep.join(parts)
RECURSIVE Join(_, _)
Join(sep, parts) ==
  IF parts = <<>> THEN <<>>
  ELSE IF Len(parts) = 1 THEN parts[1]
  ELSE parts[1] \o sep \o Join(sep, Tail(parts))

\* text.replace(",", ".")
RECURSIVE ReplaceComma(_)
ReplaceComma(s) ==
  IF s = <<>> THEN <<>>
  ELSE <<(IF Head(s) = "," THEN "." ELSE Head(s))>> \o ReplaceComma(Tail(s))

\* The parts of s between the occurrences of the character sep.
RECURSIVE Split(_, _)
Split(s, sep) ==
  IF s = <<>> THEN << <<>> >>
  ELSE LET rest == Split(Tail(s), sep)
       IN  IF Head(s) = sep THEN << <<>> >> \o rest
           ELSE << <<Head(s)>> \o rest[1] >> \o Tail(rest)

AllDigits(p) == \A i \in 1..Len(p) : IsDigit(p[i])

\* The number a string of decimal digits denotes.
RECURSIVE NumVal(_)
NumVal(p) ==
  IF p = <<>> THEN 0
  ELSE 10 * NumVal(SubSeq(p, 1, Len(p) - 1)) + DigitVal(p[Len(p)])

\* n written with at least w decimal digits, zero padded.
RECURSIVE Digits(_, _)
Digits(n, w) ==
  IF n < 10 /\ w <= 1 THEN <<DigitChars[n + 1]>>
  ELSE Digits(n \div 10, w - 1) \o <<DigitChars[(n % 10) + 1]>>

RECURSIVE Pow10(_)
Pow10(k) == IF k = 0 THEN 1 ELSE 10 * Pow10(k - 1)

(***************************************************************************)
(* Floats as rationals.                                                    *)
(***************************************************************************)
Abs(n) == IF n < 0 THEN -n ELSE n

RECURSIVE Gcd(_, _)
Gcd(a, b) == IF b = 0 THEN a ELSE Gcd(b, a % b)

\* num/den in lowest terms, den > 0.
Rat(num, den) ==
  LET g == Gcd(Abs(num), den)
  IN  [num |-> num \div g, den |-> den \div g]

\* An optional float: None, or a value.
None == [some |-> FALSE, num |-> 0, den |-> 1]

Some(q) == [some |-> TRUE, num |-> q.num, den |-> q.den]

\* float(text) for the decimal literals [sign] digits [. digits]; every other
\* text of the model's alphabet raises ValueError (ok = FALSE).
float(text) ==
  LET neg   == text # <<>> /\ Head(text) = "-"
      body  == IF neg THEN Tail(text) ELSE text
      parts == Split(body, ".")
      ip    == parts[1]
      fp    == IF Len(parts) = 2 THEN parts[2] ELSE <<>>
      wf    == /\ Len(parts) \in {1, 2}
               /\ AllDigits(ip) /\ AllDigits(fp)
               /\ Len(ip) + Len(fp) > 0
      mag   == NumVal(ip) * Pow10(Len(fp)) + NumVal(fp)
  IN  IF wf
        THEN [ok |-> TRUE, val |-> Rat(IF neg THEN -mag ELSE mag, Pow10(Len(fp)))]
        ELSE [ok |-> FALSE, val |-> Rat(0, 1)]

\* parse_float (the same function in clean_data.py and build_maps.py).
parse_float(value) ==
  LET text == strip(value)
  IN  IF text = <<>> THEN None
      ELSE LET f == float(ReplaceComma(text))
           IN  IF f.ok THEN Some(f.val) ELSE None

RECURSIVE SumNum(_, _)
SumNum(xs, den) ==
  IF xs = <<>> THEN 0
  ELSE Head(xs).num * (den \div Head(xs).den) + SumNum(Tail(xs), den)

RECURSIVE CommonDen(_)
CommonDen(xs) == IF xs = <<>> THEN 1 ELSE Head(xs).den * CommonDen(Tail(xs))

\* statistics.mean(xs) of a non-empty list: the exact sum over the count.
mean(xs) ==
  LET den == CommonDen(xs)
  IN  Rat(SumNum(xs, den), den * Len(xs))

\* The fractional digits of r/den (0 <= r < den), at most k of them.
RECURSIVE FracDigits(_, _, _)
FracDigits(r, den, k) ==
  IF r = 0 \/ k = 0 THEN <<>>
  ELSE <<DigitChars[((10 * r) \div den) + 1]>>
       \o FracDigits((10 * r) % den, den, k - 1)

\* str(x) of a float: sign, integer digits, ".", fractional digits ("5.0",
\* "2.25"); repr prints at most 17 significant digits.
FloatStr(q) ==
  LET mag == Abs(q.num)
      fd  == FracDigits(mag % q.den, q.den, 17)
  IN  (IF q.num < 0 THEN <<"-">> ELSE <<>>)
      \o Digits(mag \div q.den, 1) \o <<".">>
      \o (IF fd = <<>> THEN <<"0">> ELSE fd)

(***************************************************************************)
(* Dates.                                                                  *)
(***************************************************************************)
IsLeap(y) == (y % 4 = 0 /\ y % 100 # 0) \/ y % 400 = 0

DaysInMonth(m, y) ==
  IF m = 2 THEN (IF IsLeap(y) THEN 29 ELSE 28)
  ELSE IF m \in {4, 6, 9, 11} THEN 30 ELSE 31

\* datetime.strptime(s, "%d.%m.%Y"): day and month of one or two digits, a
\* year of four digits, a date of the calendar; otherwise ValueError
\* (ok = FALSE).
strptime(s) ==
  LET parts == Split(s, ".")
      wf    == /\ Len(parts) = 3
               /\ Len(parts[1]) \in {1, 2} /\ AllDigits(parts[1])
               /\ Len(parts[2]) \in {1, 2} /\ AllDigits(parts[2])
               /\ Len(parts[3]) = 4 /\ AllDigits(parts[3])
      d     == NumVal(parts[1])
      m     == NumVal(parts[2])
      y     == NumVal(parts[3])
  IN  IF wf /\ y >= 1 /\ m \in 1..12 /\ d >= 1 /\ d <= DaysInMonth(m, y)
        THEN [ok |-> TRUE, y |-> y, m |-> m, d |-> d]
        ELSE [ok |-> FALSE, y |-> 0, m |-> 0, d |-> 0]

\* a < b for two datetime values (both at midnight).
DateLess(a, b) ==
  \/ a.y < b.y
  \/ a.y = b.y /\ a.m < b.m
  \/ a.y = b.y /\ a.m = b.m /\ a.d < b.d

\* date_obj.strftime("%d.%m.%Y") for a year of four digits.
strftime(dt) ==
  Digits(dt.d, 2) \o <<".">> \o Digits(dt.m, 2) \o <<".">> \o Digits(dt.y, 4)


(***************************************************************************)
(* CSV lines (csv.writer / csv.DictReader, default dialect).               *)
(***************************************************************************)
NeedsQuote(cell) == \E i \in 1..Len(cell) : cell[i] \in {",", "\""}

\* writer.writerow(cells): a cell holding the delimiter is quoted.
csv_writerow(cells) ==
  Join(<<",">>,
       [i \in 1..Len(cells) |->
          IF NeedsQuote(cells[i]) THEN <<"\"">> \o cells[i] \o <<"\"">>
          ELSE cells[i]])

\* The cells of one line as the reader splits it (no cell of the model holds
\* a quote character, so a quote only opens or closes a quoted cell).
RECURSIVE CsvCells(_, _, _)
CsvCells(s, cur, inq) ==
  IF s = <<>> THEN <<cur>>
  ELSE IF Head(s) = "\"" THEN CsvCells(Tail(s), cur, ~inq)
  ELSE IF Head(s) = "," /\ ~inq THEN <<cur>> \o CsvCells(Tail(s), <<>>, FALSE)
  ELSE CsvCells(Tail(s), Append(cur, Head(s)), inq)

\* One data line as csv.DictReader hands it to the loader, the columns
\* named by the header row main writes (a column the line does not reach
\* reads as the empty text).
DictRow(line) ==
  LET cells   == CsvCells(line, <<>>, FALSE)
      cell(i) == IF i <= Len(cells) THEN cells[i] ELSE <<>>
  IN  [Date |-> cell(1), Oblast |-> cell(2), GID_1 |-> cell(3),
       Scheduled_outages |-> cell(4), Actual_outages |-> cell(5),
       Subqueues |-> cell(6)]

(***************************************************************************)
(* clean_data.py                                                           *)
(***************************************************************************)
EmptyMap == <<>>

\* --start-date, default "31.01.2026".
StartDateDefault == <<"3", "1", ".", "0", "1", ".", "2", "0", "2", "6">>

\* main: start_date = datetime.strptime(args.start_date, RAW_DATE_FMT)
start_date == strptime(StartDateDefault)

\* load_region_ids, one row of the region mapping file.
RegionStep(mapping, row) ==
  LET oblast == strip(row.oblast)
      gid    == strip(row.gid)
  IN  IF oblast # <<>> THEN (oblast :> gid) @@ mapping ELSE mapping

\* load_raw_data: "if date_obj < start_date: continue".
BeforeStartStrict(date_obj) == ~DateLess(start_date, date_obj)

BeforeStart(date_obj) == DateLess(date_obj, start_date)

\* load_raw_data: "if scheduled is not None: data[key][...].append(scheduled)".
AddValueZero(values, v) == Append(values, [num |-> v.num, den |-> v.den])

AddValueLast(values, v) ==
  IF v.some THEN <<[num |-> v.num, den |-> v.den]>> ELSE values

AddValue(values, v) ==
  IF v.some THEN Append(values, [num |-> v.num, den |-> v.den]) ELSE values

\* load_raw_data: "if subqueue: data[key]["subqueues"].add(subqueue)".
AddSubqueueLast(subqueues, subqueue) ==
  IF subqueue # <<>> THEN {subqueue} ELSE subqueues

AddSubqueue(subqueues, subqueue) ==
  IF subqueue # <<>> THEN subqueues \cup {subqueue} ELSE subqueues

EmptyGroup == [scheduled |-> <<>>, actual |-> <<>>, subqueues |-> {}]

\* load_raw_data, one row of the raw survey file.
RawStep(data, row) ==
  LET raw_date == strip(row.date)
      oblast   == strip(row.oblast)
      date_obj == strptime(raw_date)
  IN  IF raw_date = <<>> \/ oblast = <<>> THEN data
      ELSE IF ~date_obj.ok THEN data
      ELSE IF BeforeStart(date_obj) THEN data
      ELSE
        LET subqueue  == strip(row.subqueue)
            scheduled == parse_float(row.scheduled)
            actual    == parse_float(row.actual)
            key       == <<strftime(date_obj), oblast>>
            old       == IF key \in DOMAIN data THEN data[key] ELSE EmptyGroup
        IN  (key :> [scheduled |-> AddValue(old.scheduled, scheduled),
                     actual    |-> AddValue(old.actual, actual),
                     subqueues |-> AddSubqueue(old.subqueues, subqueue)])
            @@ data

\* main: sorted(date_strings, key=lambda d: datetime.strptime(d, RAW_DATE_FMT))
RECURSIVE SortDatesAsText(_)
SortDatesAsText(S) ==
  IF S = {} THEN <<>>
  ELSE LET m == CHOOSE x \in S : \A y \in S : ~StrLess(y, x)
       IN  <<m>> \o SortDatesAsText(S \ {m})

RECURSIVE SortDates(_)
SortDates(S) ==
  IF S = {} THEN <<>>
  ELSE LET m == CHOOSE x \in S :
                  \A y \in S : ~DateLess(strptime(y), strptime(x))
       IN  <<m>> \o SortDates(S \ {m})

\* main: the averages, "mean(values) if values else ''".
Average(values) == IF values # <<>> THEN FloatStr(mean(values)) ELSE <<>>

\* main: ", ".join(sorted(values["subqueues"]))
SubqueueText(subqueues) == Join(<<",", " ">>, SortedStrings(subqueues))

\* main: the (date, oblast) pairs of the two nested loops, in order.
RECURSIVE Pairs(_, _)
Pairs(dates, oblasts) ==
  IF dates = <<>> THEN <<>>
  ELSE [i \in 1..Len(oblasts) |-> <<Head(dates), oblasts[i]>>]
       \o Pairs(Tail(dates), oblasts)

OutputPairsReported(dates, oblasts, aggregated) ==
  SelectSeq(Pairs(dates, oblasts), LAMBDA p : p \in DOMAIN aggregated)

OutputPairs(dates, oblasts, aggregated) == Pairs(dates, oblasts)

\* main, from the two loaded inputs to the data lines of the output file.
CleanLines(mapping, aggregated) ==
  LET date_strings == {k[1] : k \in DOMAIN aggregated}
      dates        == SortDates(date_strings)
      oblasts      == SortedStrings(DOMAIN mapping)
      pairs        == OutputPairs(dates, oblasts, aggregated)
  IN  [i \in 1..Len(pairs) |->
         LET date   == pairs[i][1]
             oblast == pairs[i][2]
             values == IF pairs[i] \in DOMAIN aggregated
                         THEN aggregated[pairs[i]] ELSE EmptyGroup
         IN  csv_writerow(<<date, oblast, mapping[oblast],
                            Average(values.scheduled),
                            Average(values.actual),
                            SubqueueText(values.subqueues)>>)]

(***************************************************************************)
(* build_maps.py: load_clean_data                                          *)
(***************************************************************************)
\* The entry load_clean_data stores for a row.
EntryOf(row) ==
  [scheduled |-> parse_float(row.Scheduled_outages),
   actual    |-> parse_float(row.Actual_outages),
   subqueues |-> strip(row.Subqueues)]

\* The loop body with "if not date: continue" as its only test.
LoadStepDateTestOnly(st, row) ==
  LET date == strip(row.Date)
      gid  == strip(row.GID_1)
  IN  IF date = <<>> THEN st
      ELSE
        LET day == IF date \in DOMAIN st.data THEN st.data[date] ELSE EmptyMap
            dt  == strptime(date)
        IN  [data  |-> (date :> ((gid :> EntryOf(row)) @@ day)) @@ st.data,
             dates |-> IF dt.ok THEN Append(st.dates, dt) ELSE st.dates]

\* The loop body with the date parsed before the entry is stored.
LoadStepParseFirst(st, row) ==
  LET date == strip(row.Date)
      gid  == strip(row.GID_1)
  IN  IF date = <<>> \/ gid = <<>> \/ ~strptime(date).ok THEN st
      ELSE
        LET day == IF date \in DOMAIN st.data THEN st.data[date] ELSE EmptyMap
        IN  [data  |-> (date :> ((gid :> EntryOf(row)) @@ day)) @@ st.data,
             dates |-> Append(st.dates, strptime(date))]

\* load_clean_data, one row of the clean dataset.
LoadStep(st, row) ==
  LET date == strip(row.Date)
      gid  == strip(row.GID_1)
  IN  IF date = <<>> \/ gid = <<>> THEN st
      ELSE
        LET entry == EntryOf(row)
            day   == IF date \in DOMAIN st.data THEN st.data[date] ELSE EmptyMap
            dt    == strptime(date)
        IN  [data  |-> (date :> ((gid :> entry) @@ day)) @@ st.data,
             dates |-> IF dt.ok THEN Append(st.dates, dt) ELSE st.dates]

RECURSIVE LoadRows(_, _)
LoadRows(st, lines) ==
  IF lines = <<>> THEN st
  ELSE LoadRows(LoadStep(st, DictRow(Head(lines))), Tail(lines))

\* sorted({d for d in dates}) for datetime values.
RECURSIVE SortedDateObjs(_)
SortedDateObjs(S) ==
  IF S = {} THEN <<>>
  ELSE LET m == CHOOSE x \in S : \A y \in S : ~DateLess(y, x)
       IN  <<m>> \o SortedDateObjs(S \ {m})

\* load_clean_data's return value from the loop's final state.
LoadResult(st) ==
  LET unique_dates == SortedDateObjs({st.dates[i] : i \in 1..Len(st.dates)})
  IN  [date_strings |-> [i \in 1..Len(unique_dates) |-> strftime(unique_dates[i])],
       data         |-> st.data]

load_clean_data(lines) ==
  LoadResult(LoadRows([data |-> EmptyMap, dates |-> <<>>], lines))

(***************************************************************************)
(* build_maps.py: the script of the rendered page                          *)
(***************************************************************************)
\* A JavaScript value of the page: null, undefined, the empty string, or a
\* number num/den.
JsNull == [t |-> "null", num |-> 0, den |-> 1]

JsUndefined == [t |-> "undefined", num |-> 0, den |-> 1]

JsEmptyString == [t |-> "string", num |-> 0, den |-> 1]

JsNumber(num, den) == [t |-> "number", num |-> num, den |-> den]

\* json.dumps of a loaded value: None -> null, a float -> a number.
JsonValue(v) == IF v.some THEN JsNumber(v.num, v.den) ELSE JsNull

\* Math.round(value): the nearest integer, a half rounded up; null and ""
\* convert to 0 and undefined to NaN.
MathRound(value) ==
  IF value.t = "undefined" THEN [nan |-> TRUE, n |-> 0]
  ELSE IF value.t = "number"
    THEN [nan |-> FALSE, n |-> (2 * value.num + value.den) \div (2 * value.den)]
    ELSE [nan |-> FALSE, n |-> 0]

palette ==
  << [label |-> "0",     color |-> "#2f9e44"],
     [label |-> "1-4",   color |-> "#f2e86d"],
     [label |-> "5-8",   color |-> "#f5c76b"],
     [label |-> "9-12",  color |-> "#f19a6b"],
     [label |-> "13-16", color |-> "#e76b5a"],
     [label |-> "17-20", color |-> "#c7433c"],
     [label |-> "21-24", color |-> "#8f1d1d"] >>

\* The swatch of the legend's "No data" row.
NoDataColor == "#cfcfcf"

\* The comparisons of getColor after its first line; a comparison with NaN
\* is false.
ColorOfRounded(r) ==
  IF ~r.nan /\ r.n <= 0 THEN palette[1].color
  ELSE IF ~r.nan /\ r.n >= 1 /\ r.n <= 4 THEN palette[2].color
  ELSE IF ~r.nan /\ r.n >= 5 /\ r.n <= 8 THEN palette[3].color
  ELSE IF ~r.nan /\ r.n >= 9 /\ r.n <= 12 THEN palette[4].color
  ELSE IF ~r.nan /\ r.n >= 13 /\ r.n <= 16 THEN palette[5].color
  ELSE IF ~r.nan /\ r.n >= 17 /\ r.n <= 20 THEN palette[6].color
  ELSE palette[7].color

getColorNoAbsentTest(value) == ColorOfRounded(MathRound(value))

getColor(value) ==
  IF value.t = "null" \/ value.t = "undefined" \/ value.t = "string"
    THEN NoDataColor
    ELSE ColorOfRounded(MathRound(value))

\* GID_1 of the features of adminGeo (the ADM1 shapefile): two regions the
\* datasets of the model name and one they never name.
FeatureGids == { <<"g", "1">>, <<"g", "2">>, <<"g", "9">> }

\* "outageData[selectedDate] || {}": the entries of one date, gid -> entry.
DayDataOf(data, selectedDate) ==
  IF selectedDate \in DOMAIN data THEN data[selectedDate] ELSE EmptyMap

\* "dayData[gid] ? dayData[gid].scheduled : null" (and .actual, [kind]).
MetricOf(dayData, gid, kind) ==
  IF gid \in DOMAIN dayData THEN JsonValue(dayData[gid][kind]) ELSE JsNull

\* L.geoJSON(adminGeo, {style, onEachFeature}): per feature the fill color
\* and the tooltip's value (null: "No data") and sub-queue line.
GeoLayer(dayData, kind) ==
  [dayData |-> dayData,
   kind    |-> kind,
   style   |-> [gid \in FeatureGids |-> getColor(MetricOf(dayData, gid, kind))],
   tooltip |-> [gid \in FeatureGids |->
                  [value     |-> MetricOf(dayData, gid, kind),
                   subqueues |-> IF gid \in DOMAIN dayData
                                   THEN dayData[gid].subqueues ELSE <<>>]]]

\* "let layerScheduled = null".
NoLayer ==
  [dayData |-> EmptyMap, kind |-> "null",
   style   |-> [gid \in FeatureGids |-> NoDataColor],
   tooltip |-> [gid \in FeatureGids |-> [value |-> JsNull, subqueues |-> <<>>]]]

\* The text of the JavaScript value undefined when it is used as a property
\* key or handed to the selector.
UndefinedText == <<"undefined">>

\* renderLayers(selectedDate): the two data layers it creates.
renderLayersOneMetric(data, selectedDate) ==
  LET dayData == DayDataOf(data, selectedDate)
  IN  [layerScheduled |-> GeoLayer(dayData, "scheduled"),
       layerActual    |-> [GeoLayer(dayData, "scheduled") EXCEPT !.kind = "actual"]]

renderLayers(data, selectedDate) ==
  LET dayData == DayDataOf(data, selectedDate)
  IN  [layerScheduled |-> GeoLayer(dayData, "scheduled"),
       layerActual    |-> GeoLayer(dayData, "actual")]

\* A Leaflet map as the list of its layers, each named by what it draws.
\* L.map(...) and tileLayer.addTo(map): the base tiles.
NewMap == <<"tiles">>

\* map.removeLayer(layer) for a data layer that is on the map.
RECURSIVE RemoveDataLayer(_)
RemoveDataLayer(map) ==
  IF map = <<>> THEN <<>>
  ELSE IF Head(map) = "data" THEN Tail(map)
  ELSE <<Head(map)>> \o RemoveDataLayer(Tail(map))

\* renderLayers on one map: the old data layer, if any, is removed, the new
\* one added, then an occupied-territory overlay.
renderedMap(map, layer) ==
  LET cleared == IF layer # NoLayer THEN RemoveDataLayer(map) ELSE map
  IN  Append(Append(cleared, "data"), "occupied")

\* createModalMap(kind): the data layer of the expanded view, from the
\* selector's value at that moment.
createModalLayer(data, selected, kind) ==
  GeoLayer(DayDataOf(data, selected), kind)

\* The first option of the selector instead of the last.
initialDateFirst(dates) ==
  IF dates = <<>> THEN UndefinedText ELSE dates[1]

\* "const initialDate = dates[dates.length - 1]".
initialDate(dates) ==
  IF dates = <<>> THEN UndefinedText ELSE dates[Len(dates)]

\* "dateSelect.value = v": the option of that value is selected; with no
\* such option the selector shows none and its value reads "".
SelectValue(options, v) ==
  IF \E i \in 1..Len(options) : options[i] = v THEN v ELSE <<>>

(***************************************************************************)
(* clean_data.py: main and the files it touches                            *)
(***************************************************************************)
\* The output location: whether out_path's directory is there, whether the
\* file is, and what the file holds (the header line, the data lines).
NoOutputFile(dir) ==
  [dir |-> dir, exists |-> FALSE, header |-> FALSE, lines |-> <<>>]

\* An out_path.parent.mkdir that also creates the file, empty.
mkdirAndTruncate(out) ==
  [dir |-> TRUE, exists |-> TRUE, header |-> FALSE, lines |-> <<>>]

\* "out_path.parent.mkdir(parents=True, exist_ok=True)".
mkdirParent(out) == [out EXCEPT !.dir = TRUE]

\* "out_path.open("w", ...)": the file is created, or emptied.
openForWriting(out) ==
  [dir |-> out.dir, exists |-> TRUE, header |-> FALSE, lines |-> <<>>]

\* The with block of main: the header line, then the data lines.
writeDataset(out, mapping, aggregated) ==
  [out EXCEPT !.header = TRUE, !.lines = CleanLines(mapping, aggregated)]

(***************************************************************************)
(* build_maps.py: main, the tooltip texts of the dashboard YAML            *)
(***************************************************************************)
\* A value of the YAML document: null (a key with no value, an empty file),
\* a text, or a mapping from keys to values.
YNull == [t |-> "null", s |-> "", m |-> <<>>]

YStr(s) == [t |-> "str", s |-> s, m |-> <<>>]

YMap(m) == [t |-> "map", s |-> "", m |-> m]

\* "yaml.safe_load(...) or {}": a null document reads as None, None or {}
\* is {}.
safe_load_or_empty(doc) == IF doc.t = "null" THEN YMap(<<>>) ELSE doc

\* Whether v has the method get; v.get(...) on None raises AttributeError.
HasGet(v) == v.t = "map"

\* dict.get(key, default): the value of the key, also when it is None, and
\* the default only when the key is not there.
DictGet(d, key, default) ==
  IF key \in DOMAIN d.m THEN d.m[key] ELSE default

scheduled_tip_default ==
  YStr("Planned outages announced by authorities for each day.")

actual_tip_default ==
  YStr("Observed outages reported by households for each day.")

(***************************************************************************)
(* The inputs the model draws from.                                        *)
(***************************************************************************)
\* Rows of the region mapping file: (region name, GID_1).  Two names may
\* carry the same identifier, an identifier may be empty, and a row without
\* a name is skipped by load_region_ids.
RegionRowChoices ==
  { [oblast |-> <<"A">>,      gid |-> <<"g", "1">>],
    [oblast |-> <<"B", " ">>, gid |-> <<"g", "1">>],
    [oblast |-> <<"B">>,      gid |-> <<" ", "g", "2">>],
    [oblast |-> <<"B">>,      gid |-> <<>>],
    [oblast |-> <<>>,         gid |-> <<"g", "2">>] }

\* Report dates at or after the default start date: the start date itself
\* and 2 March 2026 written without zero padding.
RetainedDates ==
  { StartDateDefault, <<"2", ".", "3", ".", "2", "0", "2", "6">> }

\* Region names of the raw file: two of the mapping (one with a trailing
\* blank) and one the mapping never holds.
RawOblasts == { <<"A", " ">>, <<"B">>, <<"Q">> }

\* (sub-queue, scheduled hours, actual hours) of a report: a decimal comma
\* beside a malformed number, a zero beside a plain number with no
\* sub-queue, and a sub-queue with no numbers at all.
Payloads ==
  { [subqueue |-> <<"B">>, scheduled |-> <<"4", ",", "5">>, actual |-> <<"x">>],
    [subqueue |-> <<>>,    scheduled |-> <<"0">>,           actual |-> <<" ", "2">>],
    [subqueue |-> <<"A">>, scheduled |-> <<>>,              actual |-> <<>>] }

RawRow(date, oblast, p) ==
  [date |-> date, oblast |-> oblast, subqueue |-> p.subqueue,
   scheduled |-> p.scheduled, actual |-> p.actual]

\* Rows load_raw_data skips: no date, no region, a date that is not of the
\* calendar (31 February), a date before the start date.
SkippedRowChoices ==
  LET p == [subqueue |-> <<"A">>, scheduled |-> <<"4", ",", "5">>,
            actual |-> <<" ", "2">>]
  IN  { RawRow(<<>>, <<"A", " ">>, p),
        RawRow(StartDateDefault, <<" ">>, p),
        RawRow(<<"3", "1", ".", "0", "2", ".", "2", "0", "2", "6">>, <<"B">>, p),
        RawRow(<<"1", "5", ".", "0", "1", ".", "2", "0", "2", "6">>, <<"B">>, p) }

RawRowChoices ==
  { RawRow(d, o, p) : d \in RetainedDates, o \in RawOblasts, p \in Payloads }
  \cup SkippedRowChoices

\* Lines of a clean dataset file as load_clean_data may meet them, not only
\* as clean_data.main writes them: a date with or without zero padding, a
\* date that is not of the calendar, a blank date, an empty identifier.
CleanDates ==
  { StartDateDefault,
    <<"2", ".", "3", ".", "2", "0", "2", "6">>,
    <<"0", "2", ".", "0", "3", ".", "2", "0", "2", "6">>,
    <<"3", "1", ".", "0", "2", ".", "2", "0", "2", "6">>,
    <<" ">> }

CleanGids == { <<"g", "1">>, <<" ", "g", "2">>, <<>>, <<" ">> }

CleanValues ==
  { [scheduled |-> <<"4", ".", "5">>, actual |-> <<>>,
     subqueues |-> <<"A", ",", " ", "B">>],
    [scheduled |-> <<"0", ".", "0">>, actual |-> <<"1", "2", ",", "5">>,
     subqueues |-> <<>>] }

CleanLineChoices ==
  { csv_writerow(<<d, <<"A">>, g, v.scheduled, v.actual, v.subqueues>>) :
      d \in CleanDates, g \in CleanGids, v \in CleanValues }

\* Arguments of getColor: every quarter of an hour from -1 to MaxValue, and
\* the three absent values.
ColorArgs ==
  { JsNumber(Rat(n, 4).num, Rat(n, 4).den) : n \in (-4)..(4 * MaxValue) }
  \cup { JsNull, JsUndefined, JsEmptyString }

\* What a key of the YAML file may hold for a tooltip: nothing (the key is
\* not there, written Absent), no value, the empty text, a text.
Absent == [t |-> "absent", s |-> "", m |-> <<>>]

TooltipChoices == {Absent, YNull, YStr(""), YStr("custom"), YStr("other")}

\* The mapping of the given keys, without the keys whose value is Absent.
MapOf(keys, vals) ==
  LET present == {i \in 1..Len(keys) : vals[i] # Absent}
  IN  YMap([k \in {keys[i] : i \in present} |->
              vals[CHOOSE i \in present : keys[i] = k]])

CombinedChoices ==
  {Absent, YNull} \cup
  { MapOf(<<"scheduled_tooltip", "actual_tooltip", "title">>,
          <<st, at, YStr("Outage maps")>>) :
      st \in TooltipChoices, at \in TooltipChoices }

MapsChoices ==
  {Absent, YNull} \cup { MapOf(<<"combined">>, <<c>>) : c \in CombinedChoices }

\* The documents of the YAML file: empty (null), or a mapping with a title
\* and perhaps the key maps.
YamlDocChoices ==
  {YNull} \cup
  { MapOf(<<"title", "maps">>, <<YStr("Dashboard"), mp>>) : mp \in MapsChoices }

\* The YAML file: not there, or there with a document.
YamlFileChoices ==
  { [exists |-> FALSE, doc |-> YNull] } \cup
  { [exists |-> TRUE, doc |-> d] : d \in YamlDocChoices }

\* An input file of clean_data.main: readable ("ok"), not there
\* ("missing": open raises), or there and failing at open or while it is
\* read ("unreadable").
FileStates == {"ok", "missing", "unreadable"}

\* The output location before a run: no directory, no file, or a dataset an
\* earlier run wrote.
OutputChoices ==
  { NoOutputFile(FALSE), NoOutputFile(TRUE),
    [dir |-> TRUE, exists |-> TRUE, header |-> TRUE,
     lines |-> <<csv_writerow(<<StartDateDefault, <<"A">>, <<"g", "1">>,
                                <<"4", ".", "5">>, <<>>, <<"B">>>>)>>] }

(***************************************************************************)
(* State.                                                                  *)
(***************************************************************************)
VARIABLES
  pc,             \* where the run stands
  region_ids,     \* clean_data.main: the region mapping, name -> GID_1
  rawRows,        \* the rows of the raw survey file read so far
  aggregated,     \* load_raw_data: (date, oblast) -> values of the group
  cleanFile,      \* the data lines of the clean dataset file (written, or
                  \* read so far by load_clean_data)
  loadSt,         \* load_clean_data: its locals data and dates
  date_strings,   \* load_clean_data: the navigable date list (the page's dates)
  outageData,     \* load_clean_data: date -> GID_1 -> entry (the page's outageData)
  dateSelect,     \* the page: dateSelect.value
  layerScheduled, \* the page: the data layer of the scheduled panel
  layerActual,    \* the page: the data layer of the actual panel
  colorArg,       \* getColor: its argument
  colorOut,       \* getColor: its result ("" before the call)
  yamlFile,       \* build_maps.main: the file at yaml_path
  config,         \* build_maps.main: config
  maps_cfg,       \* build_maps.main: maps_cfg
  scheduled_tip,  \* build_maps.main: scheduled_tip
  actual_tip,     \* build_maps.main: actual_tip
  renderArg,      \* the page: selectedDate of the latest renderLayers call
  renders,        \* the page: calls of renderLayers so far
  mapScheduled,   \* the page: the layers on the scheduled panel's map
  mapActual,      \* the page: the layers on the actual panel's map
  modalOpen,      \* the page: #map-modal has the class "open"
  modalKind,      \* the page: the kind the expanded view was opened with
  modalLayer,     \* the page: modalLayer
  inputFiles,     \* clean_data.main: the state of regions_path and raw_path
  outPath,        \* clean_data.main: the output location out_path
  outBefore       \* the output location as the run found it

vars ==
  <<pc, region_ids, rawRows, aggregated, cleanFile, loadSt, date_strings,
    outageData, dateSelect, layerScheduled, layerActual, colorArg, colorOut,
    yamlFile, config, maps_cfg, scheduled_tip, actual_tip, renderArg,
    renders, mapScheduled, mapActual, modalOpen, modalKind, modalLayer,
    inputFiles, outPath, outBefore>>

cleanVars == <<region_ids, rawRows, aggregated>>

pageVars == <<dateSelect, layerScheduled, layerActual>>

colorVars == <<colorArg, colorOut>>

cfgVars == <<yamlFile, config, maps_cfg, scheduled_tip, actual_tip>>

mapVars == <<renderArg, renders, mapScheduled, mapActual>>

modalVars == <<modalOpen, modalKind, modalLayer>>

fileVars == <<inputFiles, outPath, outBefore>>

\* The variables of the other runs.
extVars == <<cfgVars, mapVars, modalVars, fileVars>>

\* Readable inputs and no output location yet.
NoFiles ==
  /\ inputFiles = [regions |-> "ok", raw |-> "ok"]
  /\ outPath = NoOutputFile(FALSE)
  /\ outBefore = NoOutputFile(FALSE)

\* No YAML file read: the tooltips are the built-in texts.
NoConfig ==
  /\ yamlFile = [exists |-> FALSE, doc |-> YNull]
  /\ config = YNull
  /\ maps_cfg = YNull
  /\ scheduled_tip = scheduled_tip_default
  /\ actual_tip = actual_tip_default

EmptyLoad == [data |-> EmptyMap, dates |-> <<>>]

\* Nothing read, nothing written, no page.
Blank ==
  /\ region_ids = EmptyMap
  /\ rawRows = <<>>
  /\ aggregated = EmptyMap
  /\ cleanFile = <<>>
  /\ loadSt = EmptyLoad
  /\ date_strings = <<>>
  /\ outageData = EmptyMap
  /\ dateSelect = <<>>
  /\ layerScheduled = NoLayer
  /\ layerActual = NoLayer
  /\ colorOut = ""
  /\ renderArg = <<>>
  /\ renders = 0
  /\ mapScheduled = <<>>
  /\ mapActual = <<>>
  /\ modalOpen = FALSE
  /\ modalKind = "none"
  /\ modalLayer = NoLayer

(***************************************************************************)
(* The pipeline: clean_data.main, then load_clean_data on what it wrote.   *)
(***************************************************************************)
Init ==
  /\ pc = "regions"
  /\ Blank
  /\ colorArg = JsNull
  /\ NoConfig
  /\ NoFiles

\* load_region_ids reads one more row of the mapping file.
RegionRow ==
  /\ pc = "regions"
  /\ \E row \in RegionRowChoices : region_ids' = RegionStep(region_ids, row)
  /\ UNCHANGED <<pc, rawRows, aggregated, cleanFile, loadSt, date_strings,
                 outageData, pageVars, colorVars,
                 extVars>>

\* load_region_ids returns; load_raw_data opens the raw file.
RegionsDone ==
  /\ pc = "regions"
  /\ pc' = "raw"
  /\ UNCHANGED <<cleanVars, cleanFile, loadSt, date_strings, outageData,
                 pageVars, colorVars,
                 extVars>>

\* load_raw_data reads one more row of the raw survey file.
RawRowRead ==
  /\ pc = "raw"
  /\ Len(rawRows) < MaxRows
  /\ \E row \in RawRowChoices :
       /\ rawRows' = Append(rawRows, row)
       /\ aggregated' = RawStep(aggregated, row)
  /\ UNCHANGED <<pc, region_ids, cleanFile, loadSt, date_strings, outageData,
                 pageVars, colorVars,
                 extVars>>

\* load_raw_data returns at the end of the file; main writes the clean
\* dataset.
WriteClean ==
  /\ pc = "raw"
  /\ cleanFile' = CleanLines(region_ids, aggregated)
  /\ pc' = "written"
  /\ UNCHANGED <<cleanVars, loadSt, date_strings, outageData, pageVars,
                 colorVars,
                 extVars>>

\* build_maps.main loads the clean dataset clean_data.main wrote.
LoadClean ==
  /\ pc = "written"
  /\ LET r == load_clean_data(cleanFile)
     IN  /\ date_strings' = r.date_strings
         /\ outageData' = r.data
  /\ pc' = "loaded"
  /\ UNCHANGED <<cleanVars, cleanFile, loadSt, pageVars, colorVars,
                 extVars>>

Next == RegionRow \/ RegionsDone \/ RawRowRead \/ WriteClean \/ LoadClean

Spec == Init /\ [][Next]_vars

(***************************************************************************)
(* The map page: load_clean_data on any clean dataset file, then the       *)
(* page's script and its date selector.                                    *)
(***************************************************************************)
InitMaps ==
  /\ pc = "load"
  /\ Blank
  /\ colorArg = JsNull
  /\ NoConfig
  /\ NoFiles

\* load_clean_data reads one more line of the clean dataset.
LoadRow ==
  /\ pc = "load"
  /\ Len(cleanFile) < MaxCleanRows
  /\ \E line \in CleanLineChoices :
       /\ cleanFile' = Append(cleanFile, line)
       /\ loadSt' = LoadStep(loadSt, DictRow(line))
  /\ UNCHANGED <<pc, cleanVars, date_strings, outageData, pageVars, colorVars,
                 extVars>>

\* load_clean_data returns at the end of the file; build_html embeds the
\* date list and the day-data in the page.
LoadDone ==
  /\ pc = "load"
  /\ date_strings' = LoadResult(loadSt).date_strings
  /\ outageData' = LoadResult(loadSt).data
  /\ pc' = "html"
  /\ UNCHANGED <<cleanVars, cleanFile, loadSt, pageVars, colorVars,
                 extVars>>

\* The page's script runs: the two maps get their base tiles, the selector
\* its options and the initial date, renderLayers(initialDate) draws both
\* panels.
PageInit ==
  /\ pc = "html"
  /\ dateSelect' = SelectValue(date_strings, initialDate(date_strings))
  /\ LET r == renderLayers(outageData, initialDate(date_strings))
     IN  /\ layerScheduled' = r.layerScheduled
         /\ layerActual' = r.layerActual
  /\ renderArg' = initialDate(date_strings)
  /\ renders' = 1
  /\ mapScheduled' = renderedMap(NewMap, layerScheduled)
  /\ mapActual' = renderedMap(NewMap, layerActual)
  /\ pc' = "page"
  /\ UNCHANGED <<cleanVars, cleanFile, loadSt, date_strings, outageData,
                 colorVars, cfgVars, modalVars, fileVars>>

\* The user picks another option of the selector; its change handler calls
\* renderLayers(e.target.value).
DateChange ==
  /\ pc = "page"
  /\ renders < MaxRenders
  /\ \E i \in 1..Len(date_strings) :
       /\ date_strings[i] # dateSelect
       /\ dateSelect' = date_strings[i]
       /\ renderArg' = date_strings[i]
       /\ LET r == renderLayers(outageData, date_strings[i])
          IN  /\ layerScheduled' = r.layerScheduled
              /\ layerActual' = r.layerActual
  /\ renders' = renders + 1
  /\ mapScheduled' = renderedMap(mapScheduled, layerScheduled)
  /\ mapActual' = renderedMap(mapActual, layerActual)
  /\ UNCHANGED <<pc, cleanVars, cleanFile, loadSt, date_strings, outageData,
                 colorVars, cfgVars, modalVars, fileVars>>

\* A click on an Expand button: createModalMap(kind) with the button's
\* data-expand.
OpenModal ==
  /\ pc = "page"
  /\ \E kind \in {"scheduled", "actual"} :
       /\ modalKind' = kind
       /\ modalLayer' = createModalLayer(outageData, dateSelect, kind)
  /\ modalOpen' = TRUE
  /\ UNCHANGED <<pc, cleanVars, cleanFile, loadSt, date_strings, outageData,
                 pageVars, colorVars, cfgVars, mapVars, fileVars>>

\* A click on the close button or on the backdrop of the expanded view.
CloseModal ==
  /\ pc = "page"
  /\ modalOpen
  /\ modalOpen' = FALSE
  /\ UNCHANGED <<pc, cleanVars, cleanFile, loadSt, date_strings, outageData,
                 pageVars, colorVars, cfgVars, mapVars, fileVars, modalKind,
                 modalLayer>>

NextMaps ==
  LoadRow \/ LoadDone \/ PageInit \/ DateChange \/ OpenModal \/ CloseModal

SpecMaps == InitMaps /\ [][NextMaps]_vars

(***************************************************************************)
(* getColor on its own.                                                    *)
(***************************************************************************)
InitColor ==
  /\ pc = "color"
  /\ Blank
  /\ colorArg \in ColorArgs
  /\ NoConfig
  /\ NoFiles

\* A style callback calls getColor(colorArg).
GetColorCall ==
  /\ pc = "color"
  /\ colorOut' = getColor(colorArg)
  /\ pc' = "colored"
  /\ UNCHANGED <<cleanVars, cleanFile, loadSt, date_strings, outageData,
                 pageVars, colorArg,
                 extVars>>

NextColor == GetColorCall

SpecColor == InitColor /\ [][NextColor]_vars

(***************************************************************************)
(* build_maps.main from yaml_path on: the tooltip texts.                   *)
(***************************************************************************)
InitConfig ==
  /\ pc = "yaml"
  /\ Blank
  /\ colorArg = JsNull
  /\ NoFiles
  /\ yamlFile \in YamlFileChoices
  /\ config = YNull
  /\ maps_cfg = YNull
  /\ scheduled_tip = scheduled_tip_default
  /\ actual_tip = actual_tip_default

\* "if yaml_path.exists()" is false.
YamlAbsent ==
  /\ pc = "yaml"
  /\ ~yamlFile.exists
  /\ pc' = "html"
  /\ UNCHANGED <<cleanVars, cleanFile, loadSt, date_strings, outageData,
                 pageVars, mapVars, modalVars, fileVars,
                 colorVars, cfgVars>>

\* "config = yaml.safe_load(...) or {}".
YamlLoad ==
  /\ pc = "yaml"
  /\ yamlFile.exists
  /\ config' = safe_load_or_empty(yamlFile.doc)
  /\ pc' = "config"
  /\ UNCHANGED <<cleanVars, cleanFile, loadSt, date_strings, outageData,
                 pageVars, mapVars, modalVars, fileVars,
                 colorVars, yamlFile, maps_cfg, scheduled_tip,
                 actual_tip>>

\* "maps_cfg = config.get("maps", {}).get("combined", {})"; the second get
\* raises AttributeError when the first returned None.
MapsCfg ==
  /\ pc = "config"
  /\ LET maps == DictGet(config, "maps", YMap(<<>>))
     IN  IF HasGet(maps)
           THEN /\ maps_cfg' = DictGet(maps, "combined", YMap(<<>>))
                /\ pc' = "maps_cfg"
           ELSE /\ maps_cfg' = maps_cfg
                /\ pc' = "failed"
  /\ UNCHANGED <<cleanVars, cleanFile, loadSt, date_strings, outageData,
                 pageVars, mapVars, modalVars, fileVars,
                 colorVars, yamlFile, config, scheduled_tip,
                 actual_tip>>

\* "scheduled_tip = maps_cfg.get("scheduled_tooltip", scheduled_tip)" and
\* the same for actual_tip; the first get raises AttributeError when
\* maps_cfg is None.
Tooltips ==
  /\ pc = "maps_cfg"
  /\ IF HasGet(maps_cfg)
       THEN /\ scheduled_tip' = DictGet(maps_cfg, "scheduled_tooltip", scheduled_tip)
            /\ actual_tip' = DictGet(maps_cfg, "actual_tooltip", actual_tip)
            /\ pc' = "html"
       ELSE /\ UNCHANGED <<scheduled_tip, actual_tip>>
            /\ pc' = "failed"
  /\ UNCHANGED <<cleanVars, cleanFile, loadSt, date_strings, outageData,
                 pageVars, mapVars, modalVars, fileVars,
                 colorVars, yamlFile, config, maps_cfg>>

\* build_html and out_path.write_text: the run completes.
WriteHtml ==
  /\ pc = "html"
  /\ pc' = "done"
  /\ UNCHANGED <<cleanVars, cleanFile, loadSt, date_strings, outageData,
                 pageVars, mapVars, modalVars, fileVars,
                 colorVars, cfgVars>>

NextConfig == YamlAbsent \/ YamlLoad \/ MapsCfg \/ Tooltips \/ WriteHtml

SpecConfig == InitConfig /\ [][NextConfig]_vars

(***************************************************************************)
(* clean_data.main with inputs that may be missing or unreadable.          *)
(***************************************************************************)
otherVars ==
  <<cleanFile, loadSt, date_strings, outageData, pageVars, colorVars, cfgVars,
    mapVars, modalVars>>

InitRun ==
  /\ pc = "run_start"
  /\ Blank
  /\ colorArg = JsNull
  /\ NoConfig
  /\ inputFiles \in [regions : FileStates, raw : FileStates]
  /\ outPath \in OutputChoices
  /\ outBefore = outPath

\* main up to load_region_ids: the output directory is made.
RunStart ==
  /\ pc = "run_start"
  /\ outPath' = mkdirParent(outPath)
  /\ pc' = "run_regions"
  /\ UNCHANGED <<cleanVars, otherVars, inputFiles, outBefore>>

\* load_region_ids reads one more row of the mapping file.
RunRegionRow ==
  /\ pc = "run_regions"
  /\ inputFiles.regions \in {"ok", "unreadable"}
  /\ \E row \in RegionRowChoices : region_ids' = RegionStep(region_ids, row)
  /\ UNCHANGED <<pc, rawRows, aggregated, otherVars, fileVars>>

\* load_region_ids raises: the file cannot be opened, or no longer read.
RunRegionsFail ==
  /\ pc = "run_regions"
  /\ \/ inputFiles.regions = "missing" /\ region_ids = EmptyMap
     \/ inputFiles.regions = "unreadable"
  /\ pc' = "run_failed"
  /\ UNCHANGED <<cleanVars, otherVars, fileVars>>

\* load_region_ids returns at the end of the file.
RunRegionsDone ==
  /\ pc = "run_regions"
  /\ inputFiles.regions = "ok"
  /\ pc' = "run_raw"
  /\ UNCHANGED <<cleanVars, otherVars, fileVars>>

\* load_raw_data reads one more row of the raw survey file.
RunRawRow ==
  /\ pc = "run_raw"
  /\ inputFiles.raw \in {"ok", "unreadable"}
  /\ Len(rawRows) < MaxRunRows
  /\ \E row \in RawRowChoices :
       /\ rawRows' = Append(rawRows, row)
       /\ aggregated' = RawStep(aggregated, row)
  /\ UNCHANGED <<pc, region_ids, otherVars, fileVars>>

\* load_raw_data raises: the file cannot be opened, or no longer read.
RunRawFail ==
  /\ pc = "run_raw"
  /\ \/ inputFiles.raw = "missing" /\ rawRows = <<>>
     \/ inputFiles.raw = "unreadable"
  /\ pc' = "run_failed"
  /\ UNCHANGED <<cleanVars, otherVars, fileVars>>

\* load_raw_data returns at the end of the file; main sorts the dates and
\* the names.
RunRawDone ==
  /\ pc = "run_raw"
  /\ inputFiles.raw = "ok"
  /\ pc' = "run_open"
  /\ UNCHANGED <<cleanVars, otherVars, fileVars>>

\* main opens the output file for writing.
RunOpenOutput ==
  /\ pc = "run_open"
  /\ outPath' = openForWriting(outPath)
  /\ pc' = "run_write"
  /\ UNCHANGED <<cleanVars, otherVars, inputFiles, outBefore>>

\* main writes the header and the data lines and closes the file.
RunWrite ==
  /\ pc = "run_write"
  /\ outPath' = writeDataset(outPath, region_ids, aggregated)
  /\ pc' = "run_done"
  /\ UNCHANGED <<cleanVars, otherVars, inputFiles, outBefore>>

NextRun ==
  \/ RunStart \/ RunRegionRow \/ RunRegionsFail \/ RunRegionsDone
  \/ RunRawRow \/ RunRawFail \/ RunRawDone \/ RunOpenOutput \/ RunWrite

SpecRun == InitRun /\ [][NextRun]_vars

(***************************************************************************)
(* What the claims speak of, stated over the raw rows and the written      *)
(* file.                                                                   *)
(***************************************************************************)
\* The date a raw row reports for.
RowDate(row) == strptime(strip(row.date))

\* The row names a date and a region, its date is of the calendar and not
\* before the start date.
Retained(row) ==
  /\ strip(row.date) # <<>>
  /\ strip(row.oblast) # <<>>
  /\ RowDate(row).ok
  /\ ~DateLess(RowDate(row), start_date)

\* A raw row as the claims read it: whether it is retained, its date, its
\* region name, its two values (or none) and its sub-queue label.
Report(row) ==
  [retained  |-> Retained(row),
   date      |-> RowDate(row),
   oblast    |-> strip(row.oblast),
   scheduled |-> parse_float(row.scheduled),
   actual    |-> parse_float(row.actual),
   subqueue  |-> strip(row.subqueue)]

RECURSIVE ReportsOf(_)
ReportsOf(rows) ==
  IF rows = <<>> THEN <<>>
  ELSE <<Report(Head(rows))>> \o ReportsOf(Tail(rows))

\* The raw rows read so far.
Reports == ReportsOf(rawRows)

\* The valid dates found in the filtered raw data.
ValidDatesOf(rep) == {rep[i].date : i \in {j \in 1..Len(rep) : rep[j].retained}}

\* The retained raw rows of one date and one region name.
GroupIdx(rep, d, r) ==
  {i \in 1..Len(rep) : rep[i].retained /\ rep[i].date = d /\ rep[i].oblast = r}

\* Those of them with a well-formed value of the metric.
Contrib(rep, d, r, metric) == {i \in GroupIdx(rep, d, r) : rep[i][metric].some}

RECURSIVE ProdDen(_, _, _)
ProdDen(rep, I, metric) ==
  IF I = {} THEN 1
  ELSE LET i == CHOOSE x \in I : TRUE
       IN  rep[i][metric].den * ProdDen(rep, I \ {i}, metric)

RECURSIVE SumOver(_, _, _, _)
SumOver(rep, I, metric, den) ==
  IF I = {} THEN 0
  ELSE LET i == CHOOSE x \in I : TRUE
       IN  rep[i][metric].num * (den \div rep[i][metric].den)
           + SumOver(rep, I \ {i}, metric, den)

\* The text cell denotes the arithmetic mean of the values of the rows I.
IsMeanOf(cell, rep, I, metric) ==
  LET q   == parse_float(cell)
      den == ProdDen(rep, I, metric)
  IN  /\ q.some
      /\ q.num * den * Cardinality(I) = SumOver(rep, I, metric, den) * q.den

\* The data rows of a clean dataset file, column -> cell.
RECURSIVE ParsedLines(_)
ParsedLines(lines) ==
  IF lines = <<>> THEN <<>>
  ELSE <<DictRow(Head(lines))>> \o ParsedLines(Tail(lines))

OutRows == ParsedLines(cleanFile)

\* clean_data.main has written the dataset.
Written == pc = "written"

\* The date an output row is written for.
DateOf(row) == strptime(row.Date)

\* The non-empty sub-queue labels of a group.
Labels(rep, d, r) == {rep[i].subqueue : i \in GroupIdx(rep, d, r)} \ {<<>>}

\* seq lists the set L in strictly ascending order.
IsSortedListOf(seq, L) ==
  /\ {seq[i] : i \in 1..Len(seq)} = L
  /\ \A i \in 1..Len(seq) - 1 : StrLess(seq[i], seq[i + 1])

(***************************************************************************)
(* C1.  The clean dataset holds exactly one data row for every pair of a   *)
(* valid date of the filtered raw data and a region name of the mapping,   *)
(* and no other row: |valid dates| x |known regions| rows, none when the   *)
(* raw input is empty.                                                     *)
(***************************************************************************)
C1_CrossProduct ==
  Written =>
    LET out   == OutRows
        dates == ValidDatesOf(Reports)
    IN  /\ \A d \in dates : \A r \in DOMAIN region_ids :
             Cardinality({i \in 1..Len(out) :
                            out[i].Date = strftime(d) /\ out[i].Oblast = r}) = 1
        /\ \A i \in 1..Len(out) :
             /\ DateOf(out[i]).ok /\ DateOf(out[i]) \in dates
             /\ out[i].Date = strftime(DateOf(out[i]))
             /\ out[i].Oblast \in DOMAIN region_ids
        /\ Len(cleanFile) = Cardinality(dates) * Cardinality(DOMAIN region_ids)
        /\ (rawRows = <<>> => Len(cleanFile) = 0)

\* Two dates and two regions are written, one pair of them with no raw row.
C1_Witness ==
  /\ Written
  /\ Cardinality(ValidDatesOf(Reports)) = 2
  /\ Cardinality(DOMAIN region_ids) = 2
  /\ Len(cleanFile) = 4
  /\ \E d \in ValidDatesOf(Reports) : \E r \in DOMAIN region_ids :
       GroupIdx(Reports, d, r) = {}

(***************************************************************************)
(* C2.  In every output row (d, r) each metric is the arithmetic mean of   *)
(* the well-formed values of the retained raw rows of date d and region r; *)
(* each value counts once, whatever the row's other fields hold.           *)
(***************************************************************************)
C2_Mean ==
  Written =>
    LET out == OutRows
        rep == Reports
    IN  \A i \in 1..Len(out) :
          LET d  == DateOf(out[i])
              r  == out[i].Oblast
              Is == Contrib(rep, d, r, "scheduled")
              Ia == Contrib(rep, d, r, "actual")
          IN  /\ Is # {} =>
                   IsMeanOf(out[i].Scheduled_outages, rep, Is, "scheduled")
              /\ Ia # {} =>
                   IsMeanOf(out[i].Actual_outages, rep, Ia, "actual")

\* Two scheduled values 4,5 and 0 of one group, the first beside a malformed
\* actual value, are written as 2.25.
C2_Witness ==
  /\ Written
  /\ \E i \in 1..Len(cleanFile) :
       LET row == DictRow(cleanFile[i])
           I   == Contrib(Reports, DateOf(row), row.Oblast, "scheduled")
       IN  /\ Cardinality(I) = 2
           /\ \E j \in I : /\ strip(rawRows[j].actual) # <<>>
                           /\ ~parse_float(rawRows[j].actual).some
           /\ row.Scheduled_outages = <<"2", ".", "2", "5">>

(***************************************************************************)
(* C3.  A metric with no well-formed value in its group is written empty,  *)
(* never as 0; a metric is written as 0 only when values exist and their   *)
(* mean is 0.                                                              *)
(***************************************************************************)
C3_EmptyNotZero ==
  Written =>
    LET out == OutRows
        rep == Reports
    IN  \A i \in 1..Len(out) :
          LET d == DateOf(out[i])
              r == out[i].Oblast
              NoneOrMean(cell, metric) ==
                LET I == Contrib(rep, d, r, metric)
                    q == parse_float(cell)
                IN  /\ I = {} => cell = <<>>
                    /\ (q.some /\ q.num = 0) =>
                         /\ I # {}
                         /\ SumOver(rep, I, metric, ProdDen(rep, I, metric)) = 0
          IN  /\ NoneOrMean(out[i].Scheduled_outages, "scheduled")
              /\ NoneOrMean(out[i].Actual_outages, "actual")

\* One row is written for a known region with no report on the date, both
\* metrics empty, and one with a scheduled mean of 0.
C3_Witness ==
  /\ Written
  /\ \E i \in 1..Len(cleanFile) :
       LET row == DictRow(cleanFile[i])
       IN  /\ GroupIdx(Reports, DateOf(row), row.Oblast) = {}
           /\ row.Scheduled_outages = <<>>
           /\ row.Actual_outages = <<>>
  /\ \E i \in 1..Len(cleanFile) :
       LET row == DictRow(cleanFile[i])
       IN  /\ row.Scheduled_outages = <<"0", ".", "0">>
           /\ row.Actual_outages = <<"2", ".", "0">>

(***************************************************************************)
(* C4.  Round trip of writer and loader: for every written row (d, r) with *)
(* a non-empty identifier g, data[d][g] holds the averages and the         *)
(* sub-unit text written in that row (null for an empty average), for      *)
(* every region mapping, also one in which two names carry one identifier. *)
(***************************************************************************)
\* The loaded value v is the number the cell shows, or null for no text.
ValueOfCell(v, cell) ==
  IF cell = <<>> THEN ~v.some
  ELSE v.some /\ FloatStr([num |-> v.num, den |-> v.den]) = cell

C4_RoundTrip ==
  pc = "loaded" =>
    LET out == OutRows
    IN  \A i \in 1..Len(out) :
          LET d == out[i].Date
              g == strip(out[i].GID_1)
          IN  g # <<>> =>
                /\ d \in DOMAIN outageData
                /\ g \in DOMAIN outageData[d]
                /\ ValueOfCell(outageData[d][g].scheduled,
                               out[i].Scheduled_outages)
                /\ ValueOfCell(outageData[d][g].actual, out[i].Actual_outages)
                /\ outageData[d][g].subqueues = out[i].Subqueues

(***************************************************************************)
(* C5.  The date threshold is inclusive: a row that names a date of the    *)
(* calendar and a region is retained iff its date is not before the start  *)
(* date; a row dated on the start date contributes to its group; a row     *)
(* dated before it contributes to no group and adds no output date.        *)
(***************************************************************************)
C5_ThresholdInclusive ==
  \A i \in 1..Len(rawRows) :
    LET row == rawRows[i]
        d   == RowDate(row)
        key == <<strftime(d), strip(row.oblast)>>
        v   == parse_float(row.scheduled)
    IN  (strip(row.date) # <<>> /\ strip(row.oblast) # <<>> /\ d.ok) =>
          /\ (~DateLess(d, start_date)) <=> (key \in DOMAIN aggregated)
          /\ (d = start_date /\ v.some) =>
               \E j \in 1..Len(aggregated[key].scheduled) :
                 aggregated[key].scheduled[j] = [num |-> v.num, den |-> v.den]
          /\ DateLess(d, start_date) =>
               /\ \A k \in DOMAIN aggregated : k[1] # strftime(d)
               /\ \A j \in 1..Len(cleanFile) :
                    DateOf(DictRow(cleanFile[j])) # d

\* A report dated on the start date and one dated before it have been read,
\* and the dataset is written.
C5_Witness ==
  /\ Written
  /\ Len(cleanFile) > 0
  /\ \E i \in 1..Len(rawRows) :
       /\ RowDate(rawRows[i]) = start_date
       /\ strip(rawRows[i].oblast) # <<>>
       /\ parse_float(rawRows[i].scheduled).some
  /\ \E i \in 1..Len(rawRows) :
       /\ RowDate(rawRows[i]).ok
       /\ DateLess(RowDate(rawRows[i]), start_date)

(***************************************************************************)
(* C6.  The data rows are ordered by date ascending in calendar order and, *)
(* within one date, by region name ascending lexicographically; the rows   *)
(* of one date are contiguous.                                             *)
(***************************************************************************)
C6_Ordering ==
  Written =>
    LET out == OutRows
    IN  \A i \in 1..Len(out) : \A j \in 1..Len(out) :
          i < j =>
            \/ DateLess(DateOf(out[i]), DateOf(out[j]))
            \/ /\ DateOf(out[i]) = DateOf(out[j])
               /\ StrLess(out[i].Oblast, out[j].Oblast)

\* 31.01.2026 is written before 02.03.2026, against the order of the two
\* strings, each date with two regions.
C6_Witness ==
  /\ Written
  /\ Len(cleanFile) = 4
  /\ LET out == OutRows
     IN  /\ DateLess(DateOf(out[2]), DateOf(out[3]))
         /\ StrLess(out[3].Date, out[2].Date)
         /\ StrLess(out[1].Oblast, out[2].Oblast)

(***************************************************************************)
(* C7.  The Subqueues field of an output row is the sorted, duplicate-free *)
(* list of the non-empty sub-unit labels of the retained raw rows of its   *)
(* group, joined with ", "; a label counts even when its row has no        *)
(* well-formed metric; the field is empty when the group has no label.     *)
(***************************************************************************)
C7_Subqueues ==
  Written =>
    LET out == OutRows
        rep == Reports
    IN  \A i \in 1..Len(out) :
          LET L == Labels(rep, DateOf(out[i]), out[i].Oblast)
          IN  /\ \E seq \in [1..Cardinality(L) -> L] :
                   /\ IsSortedListOf(seq, L)
                   /\ out[i].Subqueues = Join(<<",", " ">>, seq)
              /\ L = {} => out[i].Subqueues = <<>>

\* Labels B then A of one group, A from a row with no metric value, are
\* written as "A, B".
C7_Witness ==
  /\ Written
  /\ \E i \in 1..Len(cleanFile) :
       LET row == DictRow(cleanFile[i])
       IN  /\ row.Subqueues = <<"A", ",", " ", "B">>
           /\ \E j, k \in GroupIdx(Reports, DateOf(row), row.Oblast) :
                /\ j < k
                /\ strip(rawRows[j].subqueue) = <<"B">>
                /\ strip(rawRows[k].subqueue) = <<"A">>
                /\ ~parse_float(rawRows[k].scheduled).some
                /\ ~parse_float(rawRows[k].actual).some

(***************************************************************************)
(* C8.  One more raw row with a missing date, a missing region, an         *)
(* unparseable date or a region name the mapping does not hold leaves the  *)
(* clean dataset as it would be without that row.                          *)
(***************************************************************************)
\* The record defects the claim lists.
Defective(row) ==
  \/ strip(row.date) = <<>>
  \/ strip(row.oblast) = <<>>
  \/ ~RowDate(row).ok
  \/ strip(row.oblast) \notin DOMAIN region_ids

C8_DefectiveRowIgnored ==
  [][(pc = "raw" /\ pc' = "raw" /\ Defective(rawRows'[Len(rawRows')]))
       => CleanLines(region_ids, aggregated')
            = CleanLines(region_ids, aggregated)]_vars

(***************************************************************************)
(* The map page                                                            *)
(***************************************************************************)
\* The legend's buckets as the specification lists them: label, first and
\* last hour.
Buckets ==
  << [label |-> "0",     lo |-> 0,  hi |-> 0],
     [label |-> "1-4",   lo |-> 1,  hi |-> 4],
     [label |-> "5-8",   lo |-> 5,  hi |-> 8],
     [label |-> "9-12",  lo |-> 9,  hi |-> 12],
     [label |-> "13-16", lo |-> 13, hi |-> 16],
     [label |-> "17-20", lo |-> 17, hi |-> 20],
     [label |-> "21-24", lo |-> 21, hi |-> 24] >>

\* The labels of the legend rows drawn in the color c.
LabelsOfColor(c) ==
  { palette[i].label : i \in { j \in 1..Len(palette) : palette[j].color = c } }

IsAbsent(value) == value.t \in {"null", "undefined", "string"}

IsHour(value) ==
  value.t = "number" /\ value.den = 1 /\ value.num \in 0..24

Colored == pc = "colored"

\* C9: getColor gives every whole hour count h of 0..24 the color of exactly
\* one legend row, the row whose inclusive range lo..hi contains h, and gives
\* an absent value (null, undefined, "") the "No data" color, which is the
\* color of no legend row, in particular not of row "0".
C9_ColorBuckets ==
  Colored =>
    /\ IsHour(colorArg) =>
         \E i \in 1..Len(Buckets) :
           /\ colorArg.num \in Buckets[i].lo..Buckets[i].hi
           /\ LabelsOfColor(colorOut) = {Buckets[i].label}
    /\ IsAbsent(colorArg) =>
         /\ colorOut = NoDataColor
         /\ LabelsOfColor(colorOut) = {}

C9_Witness ==
  /\ Colored
  /\ colorArg = JsNumber(24, 1)
  /\ LabelsOfColor(colorOut) = {"21-24"}

OnPage == pc = "page"

\* The fill a panel owes a region: the color of the region's own metric in
\* the entry of that region, "No data" when the day has no entry for it.
FillOwed(dayData, gid, kind) ==
  IF gid \notin DOMAIN dayData THEN NoDataColor
  ELSE IF ~dayData[gid][kind].some THEN NoDataColor
  ELSE getColor(JsNumber(dayData[gid][kind].num, dayData[gid][kind].den))

\* C10: once the page has rendered, and after every change of the date
\* selector, the scheduled and the actual panel are built from the same
\* day-data, the day-data of the selector's current value, and each panel
\* fills every region from its own metric of that day-data.
C10_PanelsFollowSelector ==
  OnPage =>
    LET dayData == DayDataOf(outageData, dateSelect)
    IN  /\ layerScheduled.dayData = dayData
        /\ layerActual.dayData = dayData
        /\ layerScheduled.kind = "scheduled"
        /\ layerActual.kind = "actual"
        /\ \A gid \in FeatureGids :
             /\ layerScheduled.style[gid] = FillOwed(dayData, gid, "scheduled")
             /\ layerActual.style[gid] = FillOwed(dayData, gid, "actual")

\* The selector was moved off the initial date to a day whose two metrics
\* put some region in different buckets.
C10_Witness ==
  /\ OnPage
  /\ dateSelect # initialDate(date_strings)
  /\ \E gid \in FeatureGids :
       /\ gid \in DOMAIN DayDataOf(outageData, dateSelect)
       /\ layerScheduled.style[gid] # layerActual.style[gid]
       /\ layerScheduled.style[gid] # NoDataColor

(***************************************************************************)
(* The loader of the map page                                              *)
(***************************************************************************)
\* load_clean_data is in its loop, or has just returned.
Loading == pc \in {"load", "html"}

\* A row load_clean_data is to skip: no date or no identifier once trimmed.
EmptyKey(row) == strip(row.Date) = <<>> \/ strip(row.GID_1) = <<>>

\* The positions of the rows with both keys.
KeptIdx(rows) == {i \in 1..Len(rows) : ~EmptyKey(rows[i])}

\* The positions of the kept rows of one date text and identifier.
KeyIdx(rows, d, g) ==
  {i \in KeptIdx(rows) : strip(rows[i].Date) = d /\ strip(rows[i].GID_1) = g}

Max(S) == CHOOSE x \in S : \A y \in S : y <= x

\* The parsed dates of the kept rows whose date is of the calendar, in file
\* order.
RECURSIVE ValidDateSeq(_)
ValidDateSeq(rows) ==
  IF rows = <<>> THEN <<>>
  ELSE LET row == rows[Len(rows)]
           rest == ValidDateSeq(SubSeq(rows, 1, Len(rows) - 1))
       IN  IF ~EmptyKey(row) /\ strptime(strip(row.Date)).ok
             THEN Append(rest, strptime(strip(row.Date)))
             ELSE rest

\* C11: load_clean_data skips every row whose Date or GID_1 is empty after
\* trimming: the keys of the day-data are exactly the dates and identifiers
\* of the rows that have both, every entry is that of the last such row of
\* its date and identifier (no skipped row overwrote it), and the dates
\* collected are those of such rows only.
C11_EmptyKeyRowsSkipped ==
  Loading =>
    LET rows == ParsedLines(cleanFile)
        data == loadSt.data
    IN  /\ DOMAIN data = {strip(rows[i].Date) : i \in KeptIdx(rows)}
        /\ \A d \in DOMAIN data :
             /\ DOMAIN data[d] =
                  {strip(rows[i].GID_1) :
                     i \in {j \in KeptIdx(rows) : strip(rows[j].Date) = d}}
             /\ \A g \in DOMAIN data[d] :
                  data[d][g] = EntryOf(rows[Max(KeyIdx(rows, d, g))])
        /\ loadSt.dates = ValidDateSeq(rows)

\* A row with a date and no identifier follows a row of the same date that
\* has both; the earlier row's entry is in the day-data.
C11_Witness ==
  /\ pc = "html"
  /\ Len(cleanFile) = 2
  /\ LET rows == ParsedLines(cleanFile)
     IN  /\ ~EmptyKey(rows[1])
         /\ EmptyKey(rows[2])
         /\ strip(rows[2].Date) = strip(rows[1].Date)
         /\ strip(rows[1].Date) \in DOMAIN outageData
         /\ outageData[strip(rows[1].Date)][strip(rows[1].GID_1)].scheduled.some

Loaded == pc \in {"html", "page"}

\* load_clean_data has just returned.
Returned == pc = "html"

\* A row with both keys whose date text strptime rejects.
BadDate(row) == ~EmptyKey(row) /\ ~strptime(strip(row.Date)).ok

\* The file without the rows of a rejected date.
RECURSIVE WithoutBadDates(_)
WithoutBadDates(lines) ==
  IF lines = <<>> THEN <<>>
  ELSE IF BadDate(DictRow(Head(lines)))
    THEN WithoutBadDates(Tail(lines))
    ELSE <<Head(lines)>> \o WithoutBadDates(Tail(lines))

\* C12: a row with an identifier and a date text that is no calendar date
\* does not end the load: its entry is in the day-data under the date text as
\* written (the entry of the last row of that text and identifier), the text
\* is not in the navigable date list, and the date list and the entries of
\* every other date are those of the file without such rows.
C12_BadDateIndexedNotListed ==
  Returned =>
    LET rows == ParsedLines(cleanFile)
        bad  == {i \in 1..Len(rows) : BadDate(rows[i])}
        rest == load_clean_data(WithoutBadDates(cleanFile))
    IN  /\ \A i \in bad :
             LET d == strip(rows[i].Date)
                 g == strip(rows[i].GID_1)
             IN  /\ d \in DOMAIN outageData
                 /\ g \in DOMAIN outageData[d]
                 /\ outageData[d][g] = EntryOf(rows[Max(KeyIdx(rows, d, g))])
                 /\ \A k \in 1..Len(date_strings) : date_strings[k] # d
        /\ date_strings = rest.date_strings
        /\ DOMAIN outageData =
             DOMAIN rest.data \cup {strip(rows[i].Date) : i \in bad}
        /\ \A d \in DOMAIN rest.data : outageData[d] = rest.data[d]

\* A rejected date in the first row, a calendar date in the row after it:
\* both are keys of the day-data, only the second is navigable.
C12_Witness ==
  /\ Returned
  /\ Len(cleanFile) = 2
  /\ LET rows == ParsedLines(cleanFile)
     IN  /\ BadDate(rows[1])
         /\ ~EmptyKey(rows[2]) /\ ~BadDate(rows[2])
         /\ outageData[strip(rows[1].Date)][strip(rows[1].GID_1)].scheduled.some
         /\ strip(rows[2].Date) \in DOMAIN outageData
         /\ Len(date_strings) = 1

(***************************************************************************)
(* The tooltip configuration                                               *)
(***************************************************************************)
\* The value the YAML file gives at maps.combined.<key>, Absent when the
\* file, the document, a key on the way or the key itself is missing or a
\* key on the way has no value.
Configured(f, key) ==
  IF ~f.exists \/ f.doc.t # "map" THEN Absent
  ELSE IF "maps" \notin DOMAIN f.doc.m THEN Absent
  ELSE IF f.doc.m["maps"].t # "map" THEN Absent
  ELSE IF "combined" \notin DOMAIN f.doc.m["maps"].m THEN Absent
  ELSE IF f.doc.m["maps"].m["combined"].t # "map" THEN Absent
  ELSE IF key \notin DOMAIN f.doc.m["maps"].m["combined"].m THEN Absent
  ELSE f.doc.m["maps"].m["combined"].m[key]

\* C13: whatever of the optional tooltip configuration is missing (the file,
\* its content, the key maps or combined or their value, a tooltip key), the
\* run does not fail, and when it has completed every tooltip the file does
\* not configure is the built-in text.
C13_MissingConfigNeverFatal ==
  /\ pc # "failed"
  /\ pc = "done" =>
       /\ Configured(yamlFile, "scheduled_tooltip") = Absent
            => scheduled_tip = scheduled_tip_default
       /\ Configured(yamlFile, "actual_tooltip") = Absent
            => actual_tip = actual_tip_default

(***************************************************************************)
(* The page's dates                                                        *)
(***************************************************************************)
\* The page as the first renderLayers call left it.
FirstRender == pc = "page" /\ renders = 1

\* C14: when the page is first rendered, the selector's value and the date
\* handed to renderLayers are both the last element of the date list, that
\* list is in strictly ascending calendar order (sorted, no duplicates), and
\* so the date shown is the most recent calendar date of the file.
C14_InitialDateMostRecent ==
  (FirstRender /\ date_strings # <<>>) =>
    LET last  == date_strings[Len(date_strings)]
        valid == ValidDateSeq(ParsedLines(cleanFile))
    IN  /\ dateSelect = last
        /\ renderArg = last
        /\ \A i, j \in 1..Len(date_strings) :
             i < j => DateLess(strptime(date_strings[i]), strptime(date_strings[j]))
        /\ \E i \in 1..Len(valid) : strftime(valid[i]) = last
        /\ \A i \in 1..Len(valid) : ~DateLess(strptime(last), valid[i])

\* Two dates, the later one in the first row of the file and the smaller one
\* as text: the page opens on the later one.
C14_Witness ==
  /\ FirstRender
  /\ Len(date_strings) = 2
  /\ Len(cleanFile) = 2
  /\ LET rows == ParsedLines(cleanFile)
     IN  /\ ~EmptyKey(rows[1]) /\ ~EmptyKey(rows[2])
         /\ DateLess(strptime(strip(rows[2].Date)), strptime(strip(rows[1].Date)))
         /\ dateSelect = strftime(strptime(strip(rows[1].Date)))
         /\ StrLess(dateSelect, date_strings[1])

\* C15: every date of the navigable date list is a key of the day-data, so
\* the panels drawn for the selector's date are drawn from that date's
\* entries, never from the empty day-data.
C15_ListedDatesAreKeys ==
  /\ Loaded =>
       \A i \in 1..Len(date_strings) : date_strings[i] \in DOMAIN outageData
  /\ (pc = "page" /\ dateSelect # <<>>) =>
       /\ layerScheduled.dayData # EmptyMap
       /\ layerActual.dayData # EmptyMap

(***************************************************************************)
(* The expanded view                                                       *)
(***************************************************************************)
\* C16: whenever the expanded view is open, it was opened for the scheduled
\* or the actual panel and its layer is the one the panel rules (getColor
\* fills, the same tooltip values) give for that metric and the day-data of
\* the selector's current date.
C16_ModalFollowsSelector ==
  (pc = "page" /\ modalOpen) =>
    /\ modalKind \in {"scheduled", "actual"}
    /\ modalLayer.kind = modalKind
    /\ modalLayer.dayData = DayDataOf(outageData, dateSelect)
    /\ \A gid \in FeatureGids :
         modalLayer.style[gid] =
           FillOwed(DayDataOf(outageData, dateSelect), gid, modalKind)

(***************************************************************************)
(* The layers of the two panels                                            *)
(***************************************************************************)
\* How many layers of one kind a map holds.
LayerCount(map, kind) == Cardinality({i \in 1..Len(map) : map[i] = kind})

\* C17: once the page has rendered, and after any number of date changes,
\* each panel's map holds exactly one region data layer and exactly one
\* occupied-territory overlay.
C17_OneLayerOfEachKind ==
  pc = "page" =>
    /\ LayerCount(mapScheduled, "data") = 1
    /\ LayerCount(mapScheduled, "occupied") = 1
    /\ LayerCount(mapActual, "data") = 1
    /\ LayerCount(mapActual, "occupied") = 1

(***************************************************************************)
(* clean_data.main and its files                                           *)
(***************************************************************************)
\* The output file itself, the directory left aside.
FileOf(out) == [exists |-> out.exists, header |-> out.header, lines |-> out.lines]

InputBroken == inputFiles.regions # "ok" \/ inputFiles.raw # "ok"

\* C18: until both inputs have been read to their end the output file is as
\* the run found it, neither created nor emptied nor written; so a run that
\* ends on a missing or unreadable input leaves it so, and a run with such an
\* input never gets to open the output file.
C18_OutputUntouchedOnInputFailure ==
  /\ pc \in {"run_start", "run_regions", "run_raw", "run_open", "run_failed"}
       => FileOf(outPath) = FileOf(outBefore)
  /\ InputBroken => pc \notin {"run_open", "run_write", "run_done"}
  /\ pc = "run_failed" => InputBroken

\* The raw survey file fails after the mapping was read, and the dataset of
\* an earlier run is still in place.
C18_Witness ==
  /\ pc = "run_failed"
  /\ inputFiles = [regions |-> "ok", raw |-> "unreadable"]
  /\ region_ids # EmptyMap
  /\ rawRows # <<>>
  /\ outBefore.exists
  /\ outPath.lines # <<>>

=============================================================================
